---------------------------- MODULE Spec2Model ----------------------------
(***************************************************************************)
(* fab-digest (src/main.go): one run of main.  The gh command line tool is *)
(* a black box that holds a list of items (search hits, repository list    *)
(* entries, commits) and answers each query from it, or fails.  Time is    *)
(* counted in ticks since Go's zero time.Time, and a time.Duration counts  *)
(* the same ticks in a signed integer of DurationBits bits, as Go's does   *)
(* nanoseconds in 64, so that it wraps; Go slices and maps keep the        *)
(* difference between nil and empty, because encoding/json writes the one  *)
(* as null and the other as [] or {}.                                      *)
(***************************************************************************)
EXTENDS Integers, Sequences, FiniteSets, TLC

VARIABLES
    org,        \* -org flag
    hours,      \* -hours flag
    now,        \* time.Now().UTC()
    tool,       \* what gh holds: a sequence of items
    pc,         \* position in main
    running,    \* the gh subprocess main is waiting for ("" when none)
    since,      \* main's local since
    out,        \* main's local out (Output)
    repos,      \* fetchCommits' local repos
    idx,        \* fetchCommits' loop position in repos
    commits,    \* fetchCommits' local commits
    stdout,     \* JSON documents written to os.Stdout
    stderr,     \* slog lines written to os.Stderr
    exitCode,   \* process exit status (-1 until the process ends)
    issued,     \* every gh command line started, in order
    failed      \* the gh command lines that failed (positions in issued)

vars == <<org, hours, now, tool, pc, running, since, out, repos, idx,
          commits, stdout, stderr, exitCode, issued, failed>>

----------------------------------------------------------------------------
(* Bounds of the model.                                                    *)

\* items gh holds in a whole run of main
MaxEvents == 2
\* items gh holds for one search category when one fetch function is examined
MaxHits == 2
\* records per list when computeSummary is examined on its own
MaxRecords == 2
\* records per list when the JSON encoding is examined on its own
MaxDocRecords == 1
\* the latest tick of the clock
MaxTime == 4
\* the width in bits of int and of time.Duration
DurationBits == 6
\* entries of gh repo list when fetchCommits is examined
MaxListed == 2
\* commits gh holds per repository when fetchCommits is examined
MaxCount == 1

----------------------------------------------------------------------------
(* Go values.                                                              *)

EmptyFn == [x \in {} |-> 0]

NilSlice == [nil |-> TRUE, items |-> <<>>]
Slice(s) == [nil |-> FALSE, items |-> s]

NilMap == [nil |-> TRUE, m |-> EmptyFn]
MakeMap == [nil |-> FALSE, m |-> EmptyFn]

NilTime == [nil |-> TRUE, t |-> 0]
PtrTime(t) == [nil |-> FALSE, t |-> t]

\* time.Hour, in ticks
Hour == 2

\* the least and the greatest int64 (a time.Duration, or the int of -hours)
MinDuration == -(2 ^ (DurationBits - 1))
MaxDuration == 2 ^ (DurationBits - 1) - 1

\* the value a signed integer of DurationBits bits holds after an
\* operation whose exact result is x (two's complement)
Wrap(x) == ((x - MinDuration) % (2 ^ DurationBits)) + MinDuration

\* time.Time.IsZero
IsZero(t) == t = 0

\* time.Time.Before
Before(t, u) == t < u

\* time.Time.Format(time.RFC3339)
FormatRFC3339(t) == "T" \o ToString(t)

ZeroPeriod == [Hours |-> 0, Since |-> ""]

ZeroCommits == [Total |-> 0, ByRepo |-> NilMap]

ZeroGitHub ==
    [PRsMerged |-> NilSlice, PRsOpened |-> NilSlice,
     IssuesClosed |-> NilSlice, IssuesOpened |-> NilSlice,
     Commits |-> ZeroCommits]

ZeroSummary ==
    [TotalPRsMerged |-> 0, TotalIssuesClosed |-> 0, TotalCommits |-> 0,
     ActiveRepos |-> NilSlice]

\* the zero value of Output
ZeroOutput ==
    [GeneratedAt |-> "", Period |-> ZeroPeriod, GitHub |-> ZeroGitHub,
     Summary |-> ZeroSummary, Error |-> ""]

----------------------------------------------------------------------------
(* The gh tool.                                                            *)

OrgName == "acme"
RepoNames == <<"a", "b">>
NameWithOwner(r) == OrgName \o "/" \o r
FullNames == <<NameWithOwner("a"), NameWithOwner("b")>>

\* every repository identifier, in the byte order json sorts map keys in
SortedIds == <<"a", NameWithOwner("a"), NameWithOwner("b"), "b">>

Range(s) == {s[i] : i \in 1..Len(s)}

SearchKinds == <<"PRsMerged", "PRsOpened", "IssuesClosed", "IssuesOpened">>
Kinds == SearchKinds \o <<"repo", "commit">>
KindRank(k) == CHOOSE i \in 1..Len(Kinds) : Kinds[i] = k

Times == 0..MaxTime

\* a search hit: the JSON object gh prints for one PR or issue; hasAt says
\* whether the requested timestamp field is there (and not null)
Hit(kind, repo, number, title, login, hasAt, at) ==
    [kind |-> kind, repo |-> repo, number |-> number, title |-> title,
     url |-> "https://" \o title, login |-> login, hasAt |-> hasAt, at |-> at]

\* an entry of gh repo list, and one commit of gh api repos/<org>/<name>/commits
RepoEntry(name) == Hit("repo", name, 0, "", "", FALSE, 0)
CommitEntry(name) == Hit("commit", name, 0, "", "", FALSE, 0)

\* what gh prints for the query of one kind: its items of that kind, in order
Answer(kind) == SelectSeq(tool, LAMBDA e : e.kind = kind)

\* what gh api repos/<org>/<repo>/commits prints
CommitsOf(repo) == SelectSeq(tool, LAMBDA e : e.kind = "commit" /\ e.repo = repo)

----------------------------------------------------------------------------
(* The four fetch functions: parse gh's answer, drop what is before the    *)
(* window, copy the rest into PR or Issue records.                         *)

\* json.Unmarshal of one hit into ghSearchPRResult; field is the timestamp
\* the --json projection asked for, an absent or null one leaves the zero time
ghSearchPRResult(e, field) ==
    [URL |-> e.url, Number |-> e.number, Title |-> e.title,
     Repository |-> [NameWithOwner |-> e.repo],
     Author |-> [Login |-> e.login],
     MergedAt |-> IF field = "mergedAt" /\ e.hasAt THEN e.at ELSE 0,
     CreatedAt |-> IF field = "createdAt" /\ e.hasAt THEN e.at ELSE 0]

\* json.Unmarshal of one hit into ghSearchIssueResult; ClosedAt is a pointer
ghSearchIssueResult(e, field) ==
    [URL |-> e.url, Number |-> e.number, Title |-> e.title,
     Repository |-> [NameWithOwner |-> e.repo],
     Author |-> [Login |-> e.login],
     ClosedAt |-> IF field = "closedAt" /\ e.hasAt THEN PtrTime(e.at) ELSE NilTime,
     CreatedAt |-> IF field = "createdAt" /\ e.hasAt THEN e.at ELSE 0]

\* the loops' continue conditions
DropMergedPR(r, s) == ~IsZero(r.MergedAt) /\ Before(r.MergedAt, s)

DropOpenedPR(r, s) == ~IsZero(r.CreatedAt) /\ Before(r.CreatedAt, s)

DropClosedIssue(r, s) == ~r.ClosedAt.nil /\ Before(r.ClosedAt.t, s)

\* the opened-issue filter dropping a record created at the window start
DropOpenedIssueInclusive(r, s) == ~IsZero(r.CreatedAt) /\ r.CreatedAt <= s

DropOpenedIssue(r, s) == ~IsZero(r.CreatedAt) /\ Before(r.CreatedAt, s)

\* the PR{...} and Issue{...} literals (the two structs have the same fields)
Record(r) ==
    [Repo |-> r.Repository.NameWithOwner, Number |-> r.Number,
     Title |-> r.Title, URL |-> r.URL, Author |-> r.Author.Login]

Records(kept) == Slice([i \in 1..Len(kept) |-> Record(kept[i])])

fetchMergedPRs(answer, s) ==
    LET results == [i \in 1..Len(answer) |-> ghSearchPRResult(answer[i], "mergedAt")]
    IN  Records(SelectSeq(results, LAMBDA r : ~DropMergedPR(r, s)))

fetchOpenedPRs(answer, s) ==
    LET results == [i \in 1..Len(answer) |-> ghSearchPRResult(answer[i], "createdAt")]
    IN  Records(SelectSeq(results, LAMBDA r : ~DropOpenedPR(r, s)))

fetchClosedIssues(answer, s) ==
    LET results == [i \in 1..Len(answer) |-> ghSearchIssueResult(answer[i], "closedAt")]
    IN  Records(SelectSeq(results, LAMBDA r : ~DropClosedIssue(r, s)))

fetchOpenedIssues(answer, s) ==
    LET results == [i \in 1..Len(answer) |-> ghSearchIssueResult(answer[i], "createdAt")]
    IN  Records(SelectSeq(results, LAMBDA r : ~DropOpenedIssue(r, s)))

\* the fetch function main calls at position kind
Fetch(kind, answer, s) ==
    CASE kind = "PRsMerged" -> fetchMergedPRs(answer, s)
      [] kind = "PRsOpened" -> fetchOpenedPRs(answer, s)
      [] kind = "IssuesClosed" -> fetchClosedIssues(answer, s)
      [] kind = "IssuesOpened" -> fetchOpenedIssues(answer, s)

\* the message of main's slog.Warn at position kind
WarnOf(kind) ==
    CASE kind = "PRsMerged" -> "failed to fetch merged PRs"
      [] kind = "PRsOpened" -> "failed to fetch opened PRs"
      [] kind = "IssuesClosed" -> "failed to fetch closed issues"
      [] kind = "IssuesOpened" -> "failed to fetch opened issues"

\* fetchOrgRepos: the name of each repository list entry
fetchOrgRepos(answer) == [i \in 1..Len(answer) |-> answer[i].repo]

\* fetchRepoCommitCount: len(results)
fetchRepoCommitCount(answer) == Len(answer)

\* the body of fetchCommits' loop after a query that succeeded
AddCount(c, repo, count) ==
    IF count > 0
    THEN [Total |-> c.Total + count,
          ByRepo |-> [nil |-> FALSE, m |-> (repo :> count) @@ c.ByRepo.m]]
    ELSE c

----------------------------------------------------------------------------
(* computeSummary.                                                         *)

Repos(list) == {list.items[i].Repo : i \in 1..Len(list.items)}

\* computeSummary without its loop over IssuesOpened
ActiveSetWithoutIssuesOpened(gh) ==
    Repos(gh.PRsMerged) \cup Repos(gh.PRsOpened) \cup Repos(gh.IssuesClosed)
        \cup DOMAIN gh.Commits.ByRepo.m

\* the keys of computeSummary's activeRepos map after its five loops
ActiveSet(gh) ==
    Repos(gh.PRsMerged) \cup Repos(gh.PRsOpened) \cup Repos(gh.IssuesClosed)
        \cup Repos(gh.IssuesOpened) \cup DOMAIN gh.Commits.ByRepo.m

\* the orders in which a range over a Go map may visit the keys S
Orderings(S) ==
    {s \in [1..Cardinality(S) -> S] : \A i, j \in 1..Cardinality(S) : s[i] = s[j] => i = j}

\* computeSummary counting the opened issues as the closed ones
computeSummaryCountsOpened(gh, order) ==
    [TotalPRsMerged |-> Len(gh.PRsMerged.items),
     TotalIssuesClosed |-> Len(gh.IssuesOpened.items),
     TotalCommits |-> gh.Commits.Total,
     ActiveRepos |-> Slice(order)]

\* computeSummary, with the order the final range over activeRepos took
computeSummary(gh, order) ==
    [TotalPRsMerged |-> Len(gh.PRsMerged.items),
     TotalIssuesClosed |-> Len(gh.IssuesClosed.items),
     TotalCommits |-> gh.Commits.Total,
     ActiveRepos |-> Slice(order)]

----------------------------------------------------------------------------
(* encoding/json on Output.  A document is the tree of JSON values the     *)
(* encoder writes: an object is the sequence of its members in the order   *)
(* written.                                                                *)

JNull == [t |-> "null"]
JStr(s) == [t |-> "str", s |-> s]
JNum(n) == [t |-> "num", n |-> n]
JArr(a) == [t |-> "arr", a |-> a]
JObj(m) == [t |-> "obj", m |-> m]
Member(k, v) == [k |-> k, v |-> v]

\* a string field tagged omitempty
OmitEmpty(k, s) == IF s = "" THEN <<>> ELSE <<Member(k, JStr(s))>>

\* PR and Issue: author is omitempty
MarshalRecord(p) ==
    JObj(<<Member("repo", JStr(p.Repo)), Member("number", JNum(p.Number)),
           Member("title", JStr(p.Title)), Member("url", JStr(p.URL))>>
         \o OmitEmpty("author", p.Author))

\* an encoder that writes a nil slice as []
MarshalRecordsNilAsEmpty(l) ==
    JArr([i \in 1..Len(l.items) |-> MarshalRecord(l.items[i])])

\* a []PR or []Issue: a nil slice encodes as null
MarshalRecords(l) ==
    IF l.nil THEN JNull
    ELSE JArr([i \in 1..Len(l.items) |-> MarshalRecord(l.items[i])])

\* a []string
MarshalStrings(l) ==
    IF l.nil THEN JNull
    ELSE JArr([i \in 1..Len(l.items) |-> JStr(l.items[i])])

\* a map[string]int: a nil map encodes as null, keys are written sorted
MarshalByRepo(b) ==
    IF b.nil THEN JNull
    ELSE LET keys == SelectSeq(SortedIds, LAMBDA k : k \in DOMAIN b.m)
         IN  JObj([i \in 1..Len(keys) |-> Member(keys[i], JNum(b.m[keys[i]]))])

MarshalPeriod(p) ==
    JObj(<<Member("hours", JNum(p.Hours)), Member("since", JStr(p.Since))>>)

MarshalCommits(c) ==
    JObj(<<Member("total", JNum(c.Total)), Member("byRepo", MarshalByRepo(c.ByRepo))>>)

MarshalGitHub(g) ==
    JObj(<<Member("prsMerged", MarshalRecords(g.PRsMerged)),
           Member("prsOpened", MarshalRecords(g.PRsOpened)),
           Member("issuesClosed", MarshalRecords(g.IssuesClosed)),
           Member("issuesOpened", MarshalRecords(g.IssuesOpened)),
           Member("commits", MarshalCommits(g.Commits))>>)

MarshalSummary(x) ==
    JObj(<<Member("totalPRsMerged", JNum(x.TotalPRsMerged)),
           Member("totalIssuesClosed", JNum(x.TotalIssuesClosed)),
           Member("totalCommits", JNum(x.TotalCommits)),
           Member("activeRepos", MarshalStrings(x.ActiveRepos))>>)

\* the struct tags of Output: only error is omitempty, and a struct-typed
\* field is written whatever it holds
MarshalOutputFields(o) ==
    <<Member("generatedAt", JStr(o.GeneratedAt)),
      Member("period", MarshalPeriod(o.Period)),
      Member("github", MarshalGitHub(o.GitHub)),
      Member("summary", MarshalSummary(o.Summary))>>
    \o OmitEmpty("error", o.Error)

\* json.Marshal(Output), and what emitJSON's encoder writes
Marshal(o) == JObj(MarshalOutputFields(o))

Has(j, k) == \E i \in 1..Len(j.m) : j.m[i].k = k
Get(j, k) == j.m[CHOOSE i \in 1..Len(j.m) : j.m[i].k = k].v

\* a key that is absent, or null, leaves the Go value as it was: zero
Given(j, k) == Has(j, k) /\ Get(j, k).t # "null"

UnmarshalString(j, k) == IF Given(j, k) THEN Get(j, k).s ELSE ""

UnmarshalInt(j, k) == IF Given(j, k) THEN Get(j, k).n ELSE 0

UnmarshalRecord(j) ==
    [Repo |-> UnmarshalString(j, "repo"), Number |-> UnmarshalInt(j, "number"),
     Title |-> UnmarshalString(j, "title"), URL |-> UnmarshalString(j, "url"),
     Author |-> UnmarshalString(j, "author")]

UnmarshalRecords(j, k) ==
    IF ~Given(j, k) THEN NilSlice
    ELSE LET a == Get(j, k).a
         IN  Slice([i \in 1..Len(a) |-> UnmarshalRecord(a[i])])

UnmarshalStrings(j, k) ==
    IF ~Given(j, k) THEN NilSlice
    ELSE LET a == Get(j, k).a IN Slice([i \in 1..Len(a) |-> a[i].s])

UnmarshalByRepo(j, k) ==
    IF ~Given(j, k) THEN NilMap
    ELSE LET m == Get(j, k).m
         IN  [nil |-> FALSE,
              m |-> [r \in {m[i].k : i \in 1..Len(m)} |-> Get(Get(j, k), r).n]]

UnmarshalPeriod(j, k) ==
    IF ~Given(j, k) THEN ZeroPeriod
    ELSE [Hours |-> UnmarshalInt(Get(j, k), "hours"),
          Since |-> UnmarshalString(Get(j, k), "since")]

UnmarshalCommits(j, k) ==
    IF ~Given(j, k) THEN ZeroCommits
    ELSE [Total |-> UnmarshalInt(Get(j, k), "total"),
          ByRepo |-> UnmarshalByRepo(Get(j, k), "byRepo")]

UnmarshalGitHub(j, k) ==
    IF ~Given(j, k) THEN ZeroGitHub
    ELSE [PRsMerged |-> UnmarshalRecords(Get(j, k), "prsMerged"),
          PRsOpened |-> UnmarshalRecords(Get(j, k), "prsOpened"),
          IssuesClosed |-> UnmarshalRecords(Get(j, k), "issuesClosed"),
          IssuesOpened |-> UnmarshalRecords(Get(j, k), "issuesOpened"),
          Commits |-> UnmarshalCommits(Get(j, k), "commits")]

UnmarshalSummary(j, k) ==
    IF ~Given(j, k) THEN ZeroSummary
    ELSE [TotalPRsMerged |-> UnmarshalInt(Get(j, k), "totalPRsMerged"),
          TotalIssuesClosed |-> UnmarshalInt(Get(j, k), "totalIssuesClosed"),
          TotalCommits |-> UnmarshalInt(Get(j, k), "totalCommits"),
          ActiveRepos |-> UnmarshalStrings(Get(j, k), "activeRepos")]

\* json.Unmarshal(data, &parsed) into a fresh Output
Unmarshal(j) ==
    [GeneratedAt |-> UnmarshalString(j, "generatedAt"),
     Period |-> UnmarshalPeriod(j, "period"),
     GitHub |-> UnmarshalGitHub(j, "github"),
     Summary |-> UnmarshalSummary(j, "summary"),
     Error |-> UnmarshalString(j, "error")]

----------------------------------------------------------------------------
(* main, step by step.                                                     *)

Log(level, msg, repo) == [level |-> level, msg |-> msg, repo |-> repo]

Cmd(cmd, repo) == [cmd |-> cmd, repo |-> repo]

\* a window start computed without overflow: now minus the hours
WindowStartExact(n, h) == n - h * Hour

\* since := time.Now().UTC().Add(-time.Duration(*hours) * time.Hour): the
\* negation and the multiplication are int64 operations, Add is exact
WindowStart(n, h) == n + Wrap(Wrap(-h) * Hour)

\* the nil a failed fetch function returns, left in place
NilRecords == NilSlice

\* the []PR{} and []Issue{} main puts in place of a failed fetch's nil
EmptyRecords == Slice(<<>>)

\* Commits{Total: 0, ByRepo: make(map[string]int)}
EmptyCommits == [Total |-> 0, ByRepo |-> MakeMap]

\* the Output literal main builds before the first query
InitialOutput(n, h) ==
    [GeneratedAt |-> FormatRFC3339(n),
     Period |-> [Hours |-> h, Since |-> FormatRFC3339(WindowStart(n, h))],
     GitHub |-> [PRsMerged |-> EmptyRecords, PRsOpened |-> EmptyRecords,
                 IssuesClosed |-> EmptyRecords, IssuesOpened |-> EmptyRecords,
                 Commits |-> EmptyCommits],
     Summary |-> ZeroSummary,
     Error |-> ""]

\* emitError leaving the message out
ErrorOutputWithoutMessage(n, msg) ==
    [ZeroOutput EXCEPT !.GeneratedAt = FormatRFC3339(n)]

\* the Output literal of emitError
ErrorOutput(n, msg) ==
    [ZeroOutput EXCEPT !.GeneratedAt = FormatRFC3339(n), !.Error = msg]

\* main running the closed-issue fetch before the opened-PR fetch
AfterClosedIssuesFirst(kind) ==
    CASE kind = "PRsMerged" -> "IssuesClosed"
      [] kind = "IssuesClosed" -> "PRsOpened"
      [] kind = "PRsOpened" -> "IssuesOpened"
      [] kind = "IssuesOpened" -> "fetchOrgRepos"

\* where main goes after the fetch at position kind
After(kind) ==
    CASE kind = "PRsMerged" -> "PRsOpened"
      [] kind = "PRsOpened" -> "IssuesClosed"
      [] kind = "IssuesClosed" -> "IssuesOpened"
      [] kind = "IssuesOpened" -> "fetchOrgRepos"

AtSearch == pc \in Range(SearchKinds)

\* if *org == "" { emitError("org flag is required"); ... }: emitError's
\* slog.Error("fatal error", "msg", msg)
emitError ==
    /\ pc = "flags" /\ org = ""
    /\ stderr' = Append(stderr, Log("ERROR", "fatal error", ""))
    /\ pc' = "emitErrorJSON"
    /\ UNCHANGED <<org, hours, now, tool, running, since, out, repos, idx,
                   commits, stdout, exitCode, issued, failed>>

\* emitError's emitJSON(Output{GeneratedAt: ..., Error: msg})
emitErrorJSON ==
    /\ pc = "emitErrorJSON"
    /\ stdout' = Append(stdout, Marshal(ErrorOutput(now, "org flag is required")))
    /\ pc' = "osExit"
    /\ UNCHANGED <<org, hours, now, tool, running, since, out, repos, idx,
                   commits, stderr, exitCode, issued, failed>>

\* os.Exit(1)
osExit ==
    /\ pc = "osExit"
    /\ exitCode' = 1
    /\ pc' = "done"
    /\ UNCHANGED <<org, hours, now, tool, running, since, out, repos, idx,
                   commits, stdout, stderr, issued, failed>>

\* since := ...; out := Output{...}; slog.Info("starting digest fetch")
Begin ==
    /\ pc = "flags" /\ org # ""
    /\ since' = WindowStart(now, hours)
    /\ out' = InitialOutput(now, hours)
    /\ stderr' = Append(stderr, Log("INFO", "starting digest fetch", ""))
    /\ pc' = "PRsMerged"
    /\ UNCHANGED <<org, hours, now, tool, running, repos, idx, commits,
                   stdout, exitCode, issued, failed>>

\* a fetch function's runCmd("gh", "search", ...): the subprocess starts
StartSearch ==
    /\ AtSearch /\ running = ""
    /\ running' = pc
    /\ issued' = Append(issued, Cmd(pc, ""))
    /\ stderr' = Append(stderr, Log("INFO", "fetching", pc))
    /\ UNCHANGED <<org, hours, now, tool, pc, since, out, repos, idx,
                   commits, stdout, exitCode, failed>>

\* main storing the empty list of a failed fetch in the merged-PR field
SearchFailedWrongField ==
    /\ running' = ""
    /\ failed' = failed \cup {Len(issued)}
    /\ stderr' = Append(stderr, Log("WARN", WarnOf(pc), ""))
    /\ out' = [out EXCEPT !.GitHub.PRsMerged = EmptyRecords]
    /\ pc' = After(pc)
    /\ UNCHANGED <<org, hours, now, tool, since, repos, idx, commits,
                   stdout, exitCode, issued>>

\* main giving up on a fetch function's error: warn and os.Exit(1)
SearchFailedExits ==
    /\ running' = ""
    /\ failed' = failed \cup {Len(issued)}
    /\ stderr' = Append(stderr, Log("WARN", WarnOf(pc), ""))
    /\ exitCode' = 1
    /\ pc' = "done"
    /\ UNCHANGED <<org, hours, now, tool, since, out, repos, idx, commits,
                   stdout, issued>>

\* what main does with a fetch function's error: warn, empty list, go on
SearchFailed ==
    /\ running' = ""
    /\ failed' = failed \cup {Len(issued)}
    /\ stderr' = Append(stderr, Log("WARN", WarnOf(pc), ""))
    /\ out' = [out EXCEPT !.GitHub[pc] = EmptyRecords]
    /\ pc' = After(pc)
    /\ UNCHANGED <<org, hours, now, tool, since, repos, idx, commits,
                   stdout, exitCode, issued>>

\* gh exits non-zero: runCmd returns an error
SearchExitError ==
    /\ AtSearch /\ running = pc
    /\ SearchFailed

\* gh exits zero and json.Unmarshal fails on what it printed
SearchParseError ==
    /\ AtSearch /\ running = pc
    /\ SearchFailed

\* gh exits zero with its answer: parse, filter, store
SearchOk ==
    /\ AtSearch /\ running = pc
    /\ running' = ""
    /\ out' = [out EXCEPT !.GitHub[pc] = Fetch(pc, Answer(pc), since)]
    /\ stderr' = Append(stderr, Log("INFO", "fetched", pc))
    /\ pc' = After(pc)
    /\ UNCHANGED <<org, hours, now, tool, since, repos, idx, commits,
                   stdout, exitCode, issued, failed>>

\* fetchCommits: fetchOrgRepos' runCmd("gh", "repo", "list", ...)
StartRepoList ==
    /\ pc = "fetchOrgRepos" /\ running = ""
    /\ running' = pc
    /\ issued' = Append(issued, Cmd("repo list", ""))
    /\ stderr' = Append(stderr, Log("INFO", "fetching", "commits"))
    /\ UNCHANGED <<org, hours, now, tool, pc, since, out, repos, idx,
                   commits, stdout, exitCode, failed>>

\* fetchOrgRepos fails, fetchCommits returns Commits{}, err, and main warns
\* and puts an empty tally in its place
RepoListFailed ==
    /\ running' = ""
    /\ failed' = failed \cup {Len(issued)}
    /\ stderr' = Append(stderr, Log("WARN", "failed to fetch commits", ""))
    /\ out' = [out EXCEPT !.GitHub.Commits = EmptyCommits]
    /\ pc' = "computeSummary"
    /\ UNCHANGED <<org, hours, now, tool, since, repos, idx, commits,
                   stdout, exitCode, issued>>

RepoListExitError ==
    /\ pc = "fetchOrgRepos" /\ running = pc
    /\ RepoListFailed

RepoListParseError ==
    /\ pc = "fetchOrgRepos" /\ running = pc
    /\ RepoListFailed

\* fetchOrgRepos returns the names; fetchCommits starts its tally
RepoListOk ==
    /\ pc = "fetchOrgRepos" /\ running = pc
    /\ running' = ""
    /\ repos' = fetchOrgRepos(Answer("repo"))
    /\ commits' = EmptyCommits
    /\ idx' = 1
    /\ pc' = "commitLoop"
    /\ UNCHANGED <<org, hours, now, tool, since, out, stdout, stderr,
                   exitCode, issued, failed>>

\* fetchRepoCommitCount's runCmd("gh", "api", "repos/<org>/<repo>/commits")
StartCommitCount ==
    /\ pc = "commitLoop" /\ running = "" /\ idx <= Len(repos)
    /\ running' = pc
    /\ issued' = Append(issued, Cmd("commits", repos[idx]))
    /\ UNCHANGED <<org, hours, now, tool, pc, since, out, repos, idx,
                   commits, stdout, stderr, exitCode, failed>>

\* the loop's error branch trying the same repository again
CommitCountRetried ==
    /\ running' = ""
    /\ failed' = failed \cup {Len(issued)}
    /\ stderr' = Append(stderr, Log("WARN", "failed to fetch commits for repo", repos[idx]))
    /\ UNCHANGED <<org, hours, now, tool, pc, since, out, repos, idx, commits,
                   stdout, exitCode, issued>>

\* the loop's error branch without its slog.Warn
CommitCountFailedSilently ==
    /\ running' = ""
    /\ failed' = failed \cup {Len(issued)}
    /\ idx' = idx + 1
    /\ UNCHANGED <<org, hours, now, tool, pc, since, out, repos, commits,
                   stdout, stderr, exitCode, issued>>

\* the loop's error branch leaving the loop
CommitCountFailedBreaks ==
    /\ running' = ""
    /\ failed' = failed \cup {Len(issued)}
    /\ stderr' = Append(stderr, Log("WARN", "failed to fetch commits for repo", repos[idx]))
    /\ idx' = Len(repos) + 1
    /\ UNCHANGED <<org, hours, now, tool, pc, since, out, repos, commits,
                   stdout, exitCode, issued>>

\* the loop's error branch: warn and continue with the next repository
CommitCountFailed ==
    /\ running' = ""
    /\ failed' = failed \cup {Len(issued)}
    /\ stderr' = Append(stderr, Log("WARN", "failed to fetch commits for repo", repos[idx]))
    /\ idx' = idx + 1
    /\ UNCHANGED <<org, hours, now, tool, pc, since, out, repos, commits,
                   stdout, exitCode, issued>>

CommitCountExitError ==
    /\ pc = "commitLoop" /\ running = pc
    /\ CommitCountFailed

CommitCountParseError ==
    /\ pc = "commitLoop" /\ running = pc
    /\ CommitCountFailed

\* the loop's body after a count
CommitCountOk ==
    /\ pc = "commitLoop" /\ running = pc
    /\ running' = ""
    /\ commits' = AddCount(commits, repos[idx], fetchRepoCommitCount(CommitsOf(repos[idx])))
    /\ idx' = idx + 1
    /\ UNCHANGED <<org, hours, now, tool, pc, since, out, repos, stdout,
                   stderr, exitCode, issued, failed>>

\* the loop ends: fetchCommits returns commits, nil; main stores it
CommitsDone ==
    /\ pc = "commitLoop" /\ running = "" /\ idx > Len(repos)
    /\ stderr' = Append(stderr, Log("INFO", "fetched", "commits"))
    /\ out' = [out EXCEPT !.GitHub.Commits = commits]
    /\ pc' = "computeSummary"
    /\ UNCHANGED <<org, hours, now, tool, running, since, repos, idx,
                   commits, stdout, exitCode, issued, failed>>

\* out.Summary = computeSummary(out.GitHub); slog.Info("digest complete")
ComputeSummary ==
    /\ pc = "computeSummary"
    /\ \E order \in Orderings(ActiveSet(out.GitHub)) :
           out' = [out EXCEPT !.Summary = computeSummary(out.GitHub, order)]
    /\ stderr' = Append(stderr, Log("INFO", "digest complete", ""))
    /\ pc' = "emitJSON"
    /\ UNCHANGED <<org, hours, now, tool, running, since, repos, idx,
                   commits, stdout, exitCode, issued, failed>>

\* emitJSON(out)
emitJSON ==
    /\ pc = "emitJSON"
    /\ stdout' = Append(stdout, Marshal(out))
    /\ pc' = "return"
    /\ UNCHANGED <<org, hours, now, tool, running, since, out, repos, idx,
                   commits, stderr, exitCode, issued, failed>>

\* main returns
Return ==
    /\ pc = "return"
    /\ exitCode' = 0
    /\ pc' = "done"
    /\ UNCHANGED <<org, hours, now, tool, running, since, out, repos, idx,
                   commits, stdout, stderr, issued, failed>>

----------------------------------------------------------------------------
(* A whole run of main.                                                    *)

BoundedSeqs(S, n) == UNION {[1..k -> S] : k \in 0..n}

\* sequences in which the items of one kind are together
ByKind(s) == \A i \in 1..(Len(s) - 1) : KindRank(s[i].kind) <= KindRank(s[i + 1].kind)

\* the repository of the hits of one kind: merged PRs and closed issues in
\* one repository, opened PRs and opened issues in the other
HitRepo(k) ==
    IF k \in {"PRsMerged", "IssuesClosed"} THEN NameWithOwner("a") ELSE NameWithOwner("b")

\* hits just before and at the window start of a run at MaxTime with -hours 1
RunHits ==
    {Hit(k, HitRepo(k), 1, "fix", "dev", TRUE, t) :
        k \in Range(SearchKinds), t \in {MaxTime - Hour - 1, MaxTime - Hour}}

RunItems ==
    RunHits \cup {RepoEntry(r) : r \in Range(RepoNames)}
            \cup {CommitEntry(r) : r \in Range(RepoNames)}

RunWorlds == {s \in BoundedSeqs(RunItems, MaxEvents) : ByKind(s)}

\* the state at the top of main, flags parsed
AtFlags ==
    /\ pc = "flags" /\ running = ""
    /\ since = 0 /\ out = ZeroOutput
    /\ repos = <<>> /\ idx = 0 /\ commits = ZeroCommits
    /\ stdout = <<>> /\ stderr = <<>> /\ exitCode = -1
    /\ issued = <<>> /\ failed = {}

Init ==
    /\ org \in {"", OrgName}
    /\ hours = 1
    /\ now = MaxTime
    /\ tool \in RunWorlds
    /\ AtFlags

Next ==
    \/ emitError \/ emitErrorJSON \/ osExit \/ Begin
    \/ StartSearch \/ SearchExitError \/ SearchParseError \/ SearchOk
    \/ StartRepoList \/ RepoListExitError \/ RepoListParseError \/ RepoListOk
    \/ StartCommitCount \/ CommitCountExitError \/ CommitCountParseError
    \/ CommitCountOk \/ CommitsDone
    \/ ComputeSummary \/ emitJSON \/ Return

Spec == Init /\ [][Next]_vars

----------------------------------------------------------------------------
(* The fetch functions on their own: a run up to the last search, with gh  *)
(* holding hits of one category whose timestamps are absent, zero, before, *)
(* at and after the window start.                                          *)

\* the hits gh may hold at position n of its answer; the number tells them apart
FetchHits(k, n) ==
    {Hit(k, NameWithOwner("a"), n, "fix", "dev", FALSE, 0)}
        \cup {Hit(k, NameWithOwner("a"), n, "fix", "dev", TRUE, t) : t \in Times}

FetchWorlds ==
    UNION {{s \in [1..n -> UNION {FetchHits(k, i) : i \in 1..n}] :
               \A i \in 1..n : s[i].number = i} :
           k \in Range(SearchKinds), n \in 0..MaxHits}

InitFetch ==
    /\ org = OrgName
    /\ hours \in -1..MaxTime
    /\ now = MaxTime
    /\ tool \in FetchWorlds
    /\ AtFlags

NextFetch == Begin \/ StartSearch \/ SearchOk

SpecFetch == InitFetch /\ [][NextFetch]_vars

----------------------------------------------------------------------------
(* computeSummary on its own, called on a GitHub value as                  *)
(* TestComputeSummary calls it.                                            *)

SummaryRecords ==
    {[Repo |-> r, Number |-> 1, Title |-> "fix", URL |-> "https://fix", Author |-> "dev"] :
        r \in Range(FullNames)}

SummaryLists == {Slice(s) : s \in BoundedSeqs(SummaryRecords, MaxRecords)}

\* tallies whose keys may or may not be identifiers the records use
SummaryTallies ==
    {[Total |-> Cardinality(S), ByRepo |-> [nil |-> FALSE, m |-> [r \in S |-> 1]]] :
        S \in SUBSET {"a", NameWithOwner("a")}}

SummaryInputs ==
    [PRsMerged : SummaryLists, PRsOpened : SummaryLists,
     IssuesClosed : SummaryLists, IssuesOpened : SummaryLists,
     Commits : SummaryTallies]

InitSummary ==
    /\ org = OrgName /\ hours = 1 /\ now = MaxTime /\ tool = <<>>
    /\ pc = "computeSummary" /\ running = ""
    /\ since = WindowStart(now, hours)
    /\ out \in {[ZeroOutput EXCEPT !.GitHub = g] : g \in SummaryInputs}
    /\ repos = <<>> /\ idx = 0 /\ commits = ZeroCommits
    /\ stdout = <<>> /\ stderr = <<>> /\ exitCode = -1
    /\ issued = <<>> /\ failed = {}

NextSummary == ComputeSummary

SpecSummary == InitSummary /\ [][NextSummary]_vars

----------------------------------------------------------------------------
(* The JSON encoding on its own: an Output is written and read back, as    *)
(* TestOutputWithAllFields, TestEmptyResultsProduceValidJSON and           *)
(* TestOutputWithError do.                                                 *)

DocRecords ==
    {[Repo |-> NameWithOwner("a"), Number |-> 42, Title |-> "a<b&c",
      URL |-> "https://fix", Author |-> a] : a \in {"", "dev"}}

DocLists == {NilSlice} \cup {Slice(s) : s \in BoundedSeqs(DocRecords, MaxDocRecords)}

DocTallies ==
    {ZeroCommits, EmptyCommits,
     [Total |-> 15, ByRepo |-> [nil |-> FALSE,
                                m |-> (NameWithOwner("a") :> 10) @@ ("b" :> 5)]]}

DocSummaries ==
    {ZeroSummary}
        \cup {[TotalPRsMerged |-> Len(l.items), TotalIssuesClosed |-> 1,
                TotalCommits |-> 15, ActiveRepos |-> l] :
                  l \in {Slice(<<>>), Slice(<<"b", NameWithOwner("a")>>)}}

DocInputs ==
    [GeneratedAt : {FormatRFC3339(MaxTime)},
     Period : {ZeroPeriod, [Hours |-> 24, Since |-> FormatRFC3339(0)]},
     GitHub : [PRsMerged : DocLists, PRsOpened : DocLists,
               IssuesClosed : DocLists, IssuesOpened : DocLists,
               Commits : DocTallies],
     Summary : DocSummaries,
     Error : {"", "org flag is required"}]

InitJSON ==
    /\ org = OrgName /\ hours = 1 /\ now = MaxTime /\ tool = <<>>
    /\ pc = "emitJSON" /\ running = ""
    /\ since = WindowStart(now, hours)
    /\ out \in DocInputs
    /\ repos = <<>> /\ idx = 0 /\ commits = ZeroCommits
    /\ stdout = <<>> /\ stderr = <<>> /\ exitCode = -1
    /\ issued = <<>> /\ failed = {}

NextJSON == emitJSON

SpecJSON == InitJSON /\ [][NextJSON]_vars

----------------------------------------------------------------------------
(* A run in which main is scheduled and every gh subprocess ends.          *)

\* one hit in the window per search category, two listed repositories, one
\* of them with a commit
FairItems ==
    {Hit(k, HitRepo(k), 1, "fix", "dev", TRUE, MaxTime - 1) : k \in Range(SearchKinds)}
        \cup {RepoEntry(r) : r \in Range(RepoNames)} \cup {CommitEntry("a")}

FairWorlds == {s \in BoundedSeqs(FairItems, MaxEvents) : ByKind(s)}

InitFair ==
    /\ org \in {"", OrgName}
    /\ hours = 1
    /\ now = MaxTime
    /\ tool \in FairWorlds
    /\ AtFlags

FairSpec == InitFair /\ [][Next]_vars /\ WF_vars(Next)

----------------------------------------------------------------------------
(* fetchCommits examined: runs in which the searches succeed and gh holds  *)
(* a repository list, which may name a repository twice, commits of the    *)
(* listed and unlisted repositories, and at most one merged PR.            *)

\* n commits of one repository
CommitEntries(name, n) == [i \in 1..n |-> CommitEntry(name)]

\* gh repo list answers of up to MaxListed entries
Listings ==
    {[i \in 1..Len(s) |-> RepoEntry(s[i])] : s \in BoundedSeqs(Range(RepoNames), MaxListed)}

CommitWorlds ==
    {pr \o listing \o CommitEntries(RepoNames[1], c[1]) \o CommitEntries(RepoNames[2], c[2]) :
        pr \in {<<>>, <<Hit("PRsMerged", NameWithOwner(RepoNames[1]), 1, "fix", "dev",
                          TRUE, MaxTime)>>},
        listing \in Listings,
        c \in [1..2 -> 0..MaxCount]}

InitCommits ==
    /\ org = OrgName
    /\ hours = 1
    /\ now = MaxTime
    /\ tool \in CommitWorlds
    /\ AtFlags

NextCommits ==
    \/ Begin \/ StartSearch \/ SearchOk
    \/ StartRepoList \/ RepoListExitError \/ RepoListParseError \/ RepoListOk
    \/ StartCommitCount \/ CommitCountExitError \/ CommitCountParseError
    \/ CommitCountOk \/ CommitsDone
    \/ ComputeSummary \/ emitJSON \/ Return

SpecCommits == InitCommits /\ [][NextCommits]_vars

----------------------------------------------------------------------------
(* The window start examined: main up to its Output literal, for every     *)
(* hour count the -hours flag accepts.                                     *)

InitWindow ==
    /\ org = OrgName
    /\ hours \in MinDuration..MaxDuration
    /\ now \in {MaxTime - 1, MaxTime}
    /\ tool = <<>>
    /\ AtFlags

NextWindow == Begin

SpecWindow == InitWindow /\ [][NextWindow]_vars

----------------------------------------------------------------------------
(* Properties.                                                             *)

\* the documents on standard output, read back
Documents == {stdout[i] : i \in 1..Len(stdout)}

\* the report of a finished run, read back from standard output
Emitted == Unmarshal(stdout[1])

\* some gh command line of this name failed
FailedCmd(c) == \E i \in failed : issued[i].cmd = c

\* the gh command lines of this name issued so far
IssuedCmds(c) == SelectSeq(issued, LAMBDA x : x.cmd = c)

\* the repository identifiers of the records of a list
ReposIn(list) == {list.items[i].Repo : i \in 1..Len(list.items)}

\* the tally of the first n listed repositories when no commit query fails
RECURSIVE FullTally(_)
FullTally(n) ==
    IF n = 0 THEN EmptyCommits
    ELSE LET name == fetchOrgRepos(Answer("repo"))[n]
         IN  AddCount(FullTally(n - 1), name, Len(CommitsOf(name)))

C2_FailureIsolated ==
    (pc = "done" /\ org # "") =>
        /\ Len(stdout) = 1
        /\ exitCode = 0
        /\ \A k \in Range(SearchKinds) :
               IF FailedCmd(k)
               THEN Emitted.GitHub[k].items = <<>>
               ELSE Emitted.GitHub[k] = Fetch(k, Answer(k), WindowStart(now, hours))
        /\ FailedCmd("repo list") =>
               /\ Emitted.GitHub.Commits.Total = 0
               /\ DOMAIN Emitted.GitHub.Commits.ByRepo.m = {}
        /\ (~FailedCmd("repo list") /\ ~FailedCmd("commits")) =>
               Emitted.GitHub.Commits = FullTally(Len(Answer("repo")))

\* C2 witness: the merged-PR query failed although gh held a merged PR in
\* the window, nothing else failed, and the report holds an opened PR
C2_Witness ==
    /\ pc = "done" /\ org # ""
    /\ Cardinality(failed) = 1 /\ FailedCmd("PRsMerged")
    /\ \E i \in 1..Len(tool) : tool[i].kind = "PRsMerged" /\ tool[i].at >= since
    /\ Len(Emitted.GitHub.PRsOpened.items) = 1

\* C3: without an organization the run emits a document with a non-empty
\* error string, fills no record list and no commit count from a query
\* (none is issued), and ends with a non-zero exit status.
C3_MissingOrg ==
    (org = "" /\ pc = "done") =>
        /\ Len(stdout) = 1
        /\ Has(stdout[1], "error") /\ Get(stdout[1], "error").s # ""
        /\ Emitted.Error # ""
        /\ Emitted.GitHub = ZeroGitHub
        /\ issued = <<>>
        /\ exitCode # 0 /\ exitCode # -1

C3_Witness == org = "" /\ pc = "done" /\ Len(stdout) = 1

\* the four record lists, byRepo and activeRepos of a document are there
\* and are not null
NonNullCollections(doc) ==
    /\ Has(doc, "github") /\ Has(doc, "summary")
    /\ \A k \in {"prsMerged", "prsOpened", "issuesClosed", "issuesOpened"} :
           Has(Get(doc, "github"), k) /\ Get(Get(doc, "github"), k).t = "arr"
    /\ Has(Get(doc, "github"), "commits")
    /\ Has(Get(Get(doc, "github"), "commits"), "byRepo")
    /\ Get(Get(Get(doc, "github"), "commits"), "byRepo").t = "obj"
    /\ Has(Get(doc, "summary"), "activeRepos")
    /\ Get(Get(doc, "summary"), "activeRepos").t = "arr"

\* C5 as claimed: in every document written to standard output, on every
\* path, the missing organization included, the four record lists, byRepo
\* and activeRepos are present and not null.
C5_NeverNull == \A doc \in Documents : NonNullCollections(doc)

\* C5 as amended: in every document written by a run with an organization,
\* whichever queries fail, the four record lists, byRepo and activeRepos
\* are present and not null.
C5_NeverNullWithOrg == org # "" => \A doc \in Documents : NonNullCollections(doc)

\* C5 witness: a report written after every query failed
C5_Witness ==
    /\ org # "" /\ Len(stdout) = 1
    /\ \A k \in Range(SearchKinds) : FailedCmd(k)
    /\ FailedCmd("repo list")

\* C6: the document emitted when the organization is missing holds only
\* the two keys generatedAt and error.
C6_ErrorDocumentTwoKeys ==
    (org = "" /\ Len(stdout) >= 1) =>
        {stdout[1].m[i].k : i \in 1..Len(stdout[1].m)} = {"generatedAt", "error"}

\* C7: in a run with an organization each of the four search queries and
\* the repository list query is issued once, never again after a failure,
\* and once the repository list is in, the commit queries issued are one
\* per listed entry, in the order listed; all of them by the time the
\* summary is computed.
C7_EachCallOnce ==
    org # "" =>
        /\ \A c \in Range(SearchKinds) \cup {"repo list"} : Len(IssuedCmds(c)) <= 1
        /\ LET asked == [i \in 1..Len(IssuedCmds("commits")) |-> IssuedCmds("commits")[i].repo]
               listed == fetchOrgRepos(Answer("repo"))
           IN  /\ Len(asked) <= Len(listed)
               /\ asked = SubSeq(listed, 1, Len(asked))
               /\ FailedCmd("repo list") => asked = <<>>
               /\ pc \in {"computeSummary", "emitJSON", "return", "done"} =>
                      /\ \A c \in Range(SearchKinds) \cup {"repo list"} :
                             Len(IssuedCmds(c)) = 1
                      /\ ~FailedCmd("repo list") => asked = listed

\* C7 witness: a finished run in which a search and the commit query of
\* the first of two listed repositories failed
C7_Witness ==
    /\ pc = "done" /\ org # ""
    /\ FailedCmd("PRsOpened") /\ FailedCmd("commits")
    /\ Len(IssuedCmds("commits")) = 2
    /\ \E i \in failed : issued[i].cmd = "commits" /\ i < Len(issued)

\* a run has written exactly one report and ended with exit status zero
Completed == pc = "done" /\ Len(stdout) = 1 /\ exitCode = 0

\* C8: a run with an organization, every subprocess of which ends,
\* eventually writes one report and exits zero, whatever fails; it never
\* writes a second document and never changes what it wrote.
C8_RunCompletes ==
    /\ [](org # "" => <>Completed)
    /\ [][Len(stdout) <= 1 /\ (stdout # <<>> => stdout' = stdout)]_vars

\* C8 witness: a completed run in which every query failed
C8_Witness ==
    /\ Completed /\ org # ""
    /\ \A k \in Range(SearchKinds) : FailedCmd(k)
    /\ FailedCmd("repo list")

\* C9: in every emitted document the summary's totals are the lengths of
\* github.prsMerged and github.issuesClosed and github.commits.total, and
\* activeRepos names the repositories of the final five categories; one
\* merged PR in one repository and one opened issue in another give two
\* active repositories, totalPRsMerged 1 and totalIssuesClosed 0.
C9_SummaryMatchesReport ==
    \A doc \in Documents :
        LET r == Unmarshal(doc)
        IN  /\ r.Summary.TotalPRsMerged = Len(r.GitHub.PRsMerged.items)
            /\ r.Summary.TotalIssuesClosed = Len(r.GitHub.IssuesClosed.items)
            /\ r.Summary.TotalCommits = r.GitHub.Commits.Total
            /\ Range(r.Summary.ActiveRepos.items)
                   = ReposIn(r.GitHub.PRsMerged) \cup ReposIn(r.GitHub.PRsOpened)
                       \cup ReposIn(r.GitHub.IssuesClosed)
                       \cup ReposIn(r.GitHub.IssuesOpened)
                       \cup DOMAIN r.GitHub.Commits.ByRepo.m
            /\ ( /\ Len(r.GitHub.PRsMerged.items) = 1
                 /\ ReposIn(r.GitHub.PRsMerged) = {NameWithOwner("a")}
                 /\ Len(r.GitHub.IssuesOpened.items) = 1
                 /\ ReposIn(r.GitHub.IssuesOpened) = {NameWithOwner("b")}
                 /\ r.GitHub.PRsOpened.items = <<>>
                 /\ r.GitHub.IssuesClosed.items = <<>>
                 /\ DOMAIN r.GitHub.Commits.ByRepo.m = {} )
               => /\ Range(r.Summary.ActiveRepos.items)
                        = {NameWithOwner("a"), NameWithOwner("b")}
                  /\ Len(r.Summary.ActiveRepos.items) = 2
                  /\ r.Summary.TotalPRsMerged = 1
                  /\ r.Summary.TotalIssuesClosed = 0

\* C9 witness: the report of a run that found one merged PR in acme/a and
\* one opened issue in acme/b
C9_Witness ==
    /\ pc = "done" /\ Len(stdout) = 1
    /\ Len(Emitted.GitHub.PRsMerged.items) = 1
    /\ ReposIn(Emitted.GitHub.PRsMerged) = {NameWithOwner("a")}
    /\ ReposIn(Emitted.GitHub.IssuesOpened) = {NameWithOwner("b")}
    /\ Emitted.Summary.TotalPRsMerged = 1

\* the fetch function of category k has returned its list
Fetched(k) == \E i \in 1..Len(stderr) : stderr[i] = Log("INFO", "fetched", k)

\* the hit is in the list of category k of the report under construction
Retained(k, e) ==
    \E i \in 1..Len(out.GitHub[k].items) : out.GitHub[k].items[i].Number = e.number

\* C4 as claimed: a hit whose timestamp is strictly before the window start
\* is excluded, and one whose timestamp is at or after it is retained.
C4_FilterByWindow ==
    \A k \in Range(SearchKinds) : \A e \in Range(Answer(k)) :
        (Fetched(k) /\ e.hasAt) =>
            /\ e.at < since => ~Retained(k, e)
            /\ e.at >= since => Retained(k, e)

\* C4 as amended: a hit whose timestamp is not the zero time and is strictly
\* before the window start is excluded, and one whose timestamp is at or
\* after the window start is retained.
C4_FilterByWindowNonZero ==
    \A k \in Range(SearchKinds) : \A e \in Range(Answer(k)) :
        (Fetched(k) /\ e.hasAt) =>
            /\ (e.at < since /\ ~IsZero(e.at)) => ~Retained(k, e)
            /\ e.at >= since => Retained(k, e)

\* C4 witness: of two closed issues, the one closed just before the window
\* start was dropped and the one closed at the window start was kept
C4_Witness ==
    /\ Fetched("IssuesClosed")
    /\ Len(Answer("IssuesClosed")) = 2
    /\ Answer("IssuesClosed")[1].hasAt /\ Answer("IssuesClosed")[1].at = since - 1
    /\ since - 1 > 0
    /\ Answer("IssuesClosed")[2].hasAt /\ Answer("IssuesClosed")[2].at = since
    /\ ~Retained("IssuesClosed", Answer("IssuesClosed")[1])
    /\ Retained("IssuesClosed", Answer("IssuesClosed")[2])

\* C10: an Output written by the encoder and read back equals the original
\* in every field.
C10_RoundTrip == pc = "return" => (Len(stdout) = 1 /\ Unmarshal(stdout[1]) = out)

\* C10 witness: a written Output with an empty list, a nil list, a record
\* with an empty author and the error string set
C10_Witness ==
    /\ pc = "return"
    /\ out.GitHub.PRsMerged = Slice(<<>>)
    /\ out.GitHub.IssuesClosed = NilSlice
    /\ Len(out.GitHub.PRsOpened.items) = 1
    /\ out.GitHub.PRsOpened.items[1].Author = ""
    /\ out.Error # ""
    /\ DOMAIN out.GitHub.Commits.ByRepo.m = {NameWithOwner("a"), "b"}

\* the gh command lines of a run in which nothing fails, in the order of
\* main and fetchCommits
QueryPlan ==
    [i \in 1..Len(SearchKinds) |-> Cmd(SearchKinds[i], "")]
        \o <<Cmd("repo list", "")>>
        \o [i \in 1..Len(Answer("repo")) |->
               Cmd("commits", fetchOrgRepos(Answer("repo"))[i])]

\* every category has settled: each search and the repository list were
\* issued and have ended, and unless the listing failed so has the commit
\* query of every listed repository
AllSettled ==
    /\ running = ""
    /\ \A c \in Range(SearchKinds) \cup {"repo list"} : Len(IssuedCmds(c)) = 1
    /\ FailedCmd("repo list") \/ Len(IssuedCmds("commits")) = Len(Answer("repo"))

\* C11: in a run with an organization the gh command lines issued are, in
\* order, the start of: merged PRs, opened PRs, closed issues, opened
\* issues, repository list, one commit query per listed repository; a
\* command line starts only when no subprocess is running; and the summary
\* is computed and the report written only when every category has settled.
C11_Sequential ==
    /\ [](org # "" =>
             /\ Len(issued) <= Len(QueryPlan)
             /\ issued = SubSeq(QueryPlan, 1, Len(issued))
             /\ (pc \in {"emitJSON", "return", "done"} \/ stdout # <<>>) => AllSettled)
    /\ [][(org # "" /\ issued' # issued) =>
              (running = "" /\ running' # "" /\ Len(issued') = Len(issued) + 1)]_vars
    /\ [][(org # "" /\ (out'.Summary # out.Summary \/ stdout' # stdout)) =>
              AllSettled]_vars

\* C11 witness: the summary is about to be computed after seven command
\* lines, a search and the first commit query among them having failed
C11_Witness ==
    /\ pc = "computeSummary" /\ org # ""
    /\ Len(issued) = Len(SearchKinds) + 3
    /\ FailedCmd("IssuesClosed")
    /\ Len(SearchKinds) + 2 \in failed


\* fetchCommits has returned to main
CommitsSettled == pc \in {"computeSummary", "emitJSON", "return", "done"}

\* the positions in issued of the commit queries that succeeded
SucceededQueries == {i \in 1..Len(issued) : issued[i].cmd = "commits" /\ i \notin failed}

\* the commits counted by the succeeded queries among the first n command lines
RECURSIVE SucceededCount(_)
SucceededCount(n) ==
    IF n = 0 THEN 0
    ELSE SucceededCount(n - 1)
             + (IF n \in SucceededQueries THEN Len(CommitsOf(issued[n].repo)) ELSE 0)

\* C12: once fetchCommits has returned, if the repository listing failed
\* the commit category is empty and no commit query was issued; otherwise
\* every listed repository was queried whatever failed, the category is
\* not reported as failed, byRepo holds exactly the repositories with a
\* succeeded query that counted more than zero, each with that count, and
\* the failed queries add nothing to the total.
C12_RepoFailureSkipped ==
    CommitsSettled =>
        LET tally == out.GitHub.Commits
            asked == [i \in 1..Len(IssuedCmds("commits")) |-> IssuedCmds("commits")[i].repo]
        IN  IF FailedCmd("repo list")
            THEN tally = EmptyCommits /\ asked = <<>>
            ELSE /\ asked = fetchOrgRepos(Answer("repo"))
                 /\ \A i \in 1..Len(stderr) : stderr[i].msg # "failed to fetch commits"
                 /\ DOMAIN tally.ByRepo.m
                        = {issued[i].repo : i \in {j \in SucceededQueries :
                                                       Len(CommitsOf(issued[j].repo)) > 0}}
                 /\ \A r \in DOMAIN tally.ByRepo.m : tally.ByRepo.m[r] = Len(CommitsOf(r))
                 /\ tally.Total = SucceededCount(Len(issued))
                 /\ stdout # <<>> => Emitted.GitHub.Commits = tally

\* C12 witness: of two listed repositories with commits the query of the
\* first failed, and the report's byRepo holds the second alone
C12_Witness ==
    /\ pc = "done" /\ ~FailedCmd("repo list")
    /\ Len(IssuedCmds("commits")) = 2
    /\ failed = {Len(issued) - 1}
    /\ issued[Len(issued) - 1].repo # issued[Len(issued)].repo
    /\ Len(CommitsOf(issued[Len(issued) - 1].repo)) > 0
    /\ DOMAIN Emitted.GitHub.Commits.ByRepo.m = {issued[Len(issued)].repo}
    /\ Emitted.GitHub.Commits.Total = 1


\* the lines on standard error equal to this one
Logged(line) == {i \in 1..Len(stderr) : stderr[i] = line}

\* the warning main or fetchCommits writes for a failure of this command line
WarningFor(c) ==
    CASE c.cmd \in Range(SearchKinds) -> Log("WARN", WarnOf(c.cmd), "")
      [] c.cmd = "repo list" -> Log("WARN", "failed to fetch commits", "")
      [] c.cmd = "commits" -> Log("WARN", "failed to fetch commits for repo", c.repo)

\* C13: at every point of a run, and so when the report is written, the
\* diagnostic stream holds for each failed gh command line (search,
\* repository list, commit query) a warning naming it, as many warnings
\* as failures; and a document written without an organization comes
\* after the error line on the diagnostic stream.
C13_FailuresLogged ==
    /\ \A i \in failed :
           Cardinality(Logged(WarningFor(issued[i])))
               = Cardinality({j \in failed : issued[j] = issued[i]})
    /\ (org = "" /\ stdout # <<>>) => Logged(Log("ERROR", "fatal error", "")) # {}

\* C13 witness: a report written after a search and both commit queries of
\* a repository listed twice failed
C13_Witness ==
    /\ org # "" /\ Len(stdout) = 1
    /\ FailedCmd("IssuesOpened")
    /\ Cardinality({i \in failed : issued[i].cmd = "commits"}) = 2
    /\ Cardinality({issued[i] : i \in failed}) = 2


\* C14: in each of the four categories a hit whose timestamp is absent or
\* is the zero time is kept whatever the window start, and a hit is dropped
\* only when its timestamp is present and strictly before the window start.
C14_ZeroOrAbsentKept ==
    \A k \in Range(SearchKinds) : \A e \in Range(Answer(k)) :
        Fetched(k) =>
            /\ (~e.hasAt \/ IsZero(e.at)) => Retained(k, e)
            /\ ~Retained(k, e) => (e.hasAt /\ e.at < since)


\* the repository an identifier names: its short name, whether the
\* identifier is the short name or owner/name
RepositoryOf(id) == CHOOSE r \in Range(RepoNames) : id = r \/ id = NameWithOwner(r)

\* C15: in every emitted report no two entries of activeRepos name the
\* same repository, and a repository with a record and a byRepo entry has
\* the same identifier in both.
C15_OneEntryPerRepository ==
    \A doc \in Documents :
        LET r == Unmarshal(doc)
            active == r.Summary.ActiveRepos.items
            recorded == ReposIn(r.GitHub.PRsMerged) \cup ReposIn(r.GitHub.PRsOpened)
                            \cup ReposIn(r.GitHub.IssuesClosed)
                            \cup ReposIn(r.GitHub.IssuesOpened)
        IN  /\ \A i, j \in 1..Len(active) :
                   RepositoryOf(active[i]) = RepositoryOf(active[j]) => i = j
            /\ \A id \in recorded : \A key \in DOMAIN r.GitHub.Commits.ByRepo.m :
                   RepositoryOf(id) = RepositoryOf(key) => id = key


\* the sum of the values a map holds for the keys S
RECURSIVE SumOver(_, _)
SumOver(m, S) ==
    IF S = {} THEN 0
    ELSE LET k == CHOOSE x \in S : TRUE IN m[k] + SumOver(m, S \ {k})

\* C16: once fetchCommits has returned a tally, whatever the repository
\* list (repeats included) and whichever queries failed, total is the sum
\* of the values of byRepo, byRepo has an entry for exactly the
\* repositories a succeeded query found commits in, and every value is
\* above zero.
C16_TotalIsSumOfByRepo ==
    (CommitsSettled /\ ~FailedCmd("repo list")) =>
        LET tally == out.GitHub.Commits
        IN  /\ tally.Total = SumOver(tally.ByRepo.m, DOMAIN tally.ByRepo.m)
            /\ DOMAIN tally.ByRepo.m
                   = {issued[i].repo : i \in {j \in SucceededQueries :
                                                  Len(CommitsOf(issued[j].repo)) > 0}}
            /\ \A r \in DOMAIN tally.ByRepo.m : tally.ByRepo.m[r] > 0


\* C17: for every hour count the flag accepts, once main has computed the
\* window start it is now minus exactly that many hours, it is strictly
\* before now for a positive count, and it is at or after now only for a
\* count that is not positive.
C17_WindowStartExact ==
    (org # "" /\ pc # "flags") =>
        /\ since = WindowStartExact(now, hours)
        /\ out.Period.Since = FormatRFC3339(WindowStartExact(now, hours))
        /\ hours > 0 => since < now
        /\ since >= now => hours <= 0


=============================================================================
